---- MODULE Spec2Model ----
(***************************************************************************)
(* Model of vtki.MultiBlock (src/vtki/container.py) and of the scalar      *)
(* lookup it uses (src/vtki/utilities.py).  MultiBlock subclasses          *)
(* vtkMultiBlockDataSet; the inherited primitives (GetBlock, SetBlock,     *)
(* RemoveBlock, GetMetaData, SetNumberOfBlocks, Modified) are modelled at  *)
(* the places the Python code calls them.                                  *)
(***************************************************************************)
EXTENDS Integers, Sequences, FiniteSets, TLC

(* ---------------------------------------------------------------------- *)
(* Bounds of the model                                                     *)
(* ---------------------------------------------------------------------- *)
\* largest number of slots a collection is driven to
MaxBlocks == 3
\* cap on the modification time of the collection (a global counter in VTK)
MaxMTime == 7
\* largest number of iterations begun while another one is in progress
MaxNested == 2

(* ---------------------------------------------------------------------- *)
(* Floating point values: finite numbers, +inf, -inf and NaN               *)
(* ---------------------------------------------------------------------- *)
Fin(n) == [k |-> "fin", v |-> n]
PInf == [k |-> "pinf", v |-> 0]
NInf == [k |-> "ninf", v |-> 0]
NaN == [k |-> "nan", v |-> 0]

\* a < b on floats: every comparison with NaN is false
FLt(a, b) ==
    CASE a.k = "nan" \/ b.k = "nan" -> FALSE
      [] a.k = "ninf" -> b.k # "ninf"
      [] a.k = "pinf" -> FALSE
      [] b.k = "pinf" -> TRUE
      [] b.k = "ninf" -> FALSE
      [] OTHER -> a.v < b.v

FGt(a, b) == FLt(b, a)

(* ---------------------------------------------------------------------- *)
(* Python values                                                           *)
(* ---------------------------------------------------------------------- *)
\* None as a block name / name argument
NoName == "<None>"
\* None as a dataset: no object
NoData == [obj |-> "None", wrapped |-> FALSE]
\* a missing array (GetArray returned NULL)
NoArray == [present |-> FALSE, vals |-> <<>>]
Arr(vals) == [present |-> TRUE, vals |-> vals]

(* ---------------------------------------------------------------------- *)
(* The data objects the collection is exercised with.  A dataset value is  *)
(* [obj, wrapped]: obj names the underlying VTK data, wrapped tells        *)
(* whether the Python object is a vtki object or a bare VTK object.        *)
(* ---------------------------------------------------------------------- *)
Objs == {"A", "B", "E", "M"}

\* vtkdataset.GetClassName()
GetClassName(o) ==
    CASE o = "A" -> "vtkPolyData"
      [] o = "B" -> "vtkUnstructuredGrid"
      [] o = "E" -> "vtkPolyData"
      [] OTHER -> "vtkMultiBlockDataSet"

\* the classes that are vtkDataSet: they have GetBounds, GetPointData, GetCellData;
\* a nested vtkMultiBlockDataSet has none of them
IsDataSet(o) == GetClassName(o) # "vtkMultiBlockDataSet"

\* data.GetBounds(); E is an empty mesh, whose bounds VTK reports as (1,-1,1,-1,1,-1)
GetBounds(o) ==
    CASE o = "A" -> <<Fin(0), Fin(1), Fin(0), Fin(1), Fin(0), Fin(1)>>
      [] o = "B" -> <<Fin(2), Fin(3), Fin(2), Fin(3), Fin(2), Fin(3)>>
      [] OTHER -> <<Fin(1), Fin(-1), Fin(1), Fin(-1), Fin(1), Fin(-1)>>

\* names of scalar arrays asked for
ArrayNames == {"s", "t", "u"}

\* mesh.GetPointData().GetArray(name)
PointArray(o, name) ==
    CASE o = "A" /\ name = "s" -> Arr(<<Fin(1), NaN>>)
      [] o = "B" /\ name = "s" -> Arr(<<Fin(0)>>)
      [] OTHER -> NoArray

\* mesh.GetCellData().GetArray(name); E has no cells, so its array is empty
CellArray(o, name) ==
    CASE o = "B" /\ name = "s" -> Arr(<<Fin(2), Fin(3)>>)
      [] o = "B" /\ name = "t" -> Arr(<<NaN>>)
      [] o = "A" /\ name = "t" -> Arr(<<Fin(2), NaN, Fin(-1)>>)
      [] o = "E" /\ name = "t" -> Arr(<<>>)
      [] OTHER -> NoArray

(* ---------------------------------------------------------------------- *)
(* utilities.py                                                            *)
(* ---------------------------------------------------------------------- *)
\* is_vtki_obj(obj)
is_vtki_obj(d) == d.wrapped

\* the keys of the wrappers table of wrap()
Wrappers ==
    {"vtkUnstructuredGrid", "vtkRectilinearGrid", "vtkStructuredGrid", "vtkPolyData",
     "vtkImageData", "vtkStructuredPoints", "vtkMultiBlockDataSet"}

\* wrap(vtkdataset): a vtki object around the data, or the object itself when
\* its class has no wrapper
wrap(d) ==
    IF GetClassName(d.obj) \in Wrappers THEN [d EXCEPT !.wrapped = TRUE] ELSE d

\* point_scalar(mesh, name)
point_scalar(d, name) == PointArray(d.obj, name)

\* cell_scalar(mesh, name)
cell_scalar(d, name) == CellArray(d.obj, name)

POINT_DATA_FIELD == 0
CELL_DATA_FIELD == 1

\* get_scalar(mesh, name) with the default preference 'cell' and info=False.
\* [err, arr]: mesh.GetPointData() raises AttributeError on an object that is no vtkDataSet
get_scalar(d, name) ==
    IF ~IsDataSet(d.obj)
    THEN [err |-> "AttributeError", arr |-> NoArray]
    ELSE LET parr == point_scalar(d, name)
             carr == cell_scalar(d, name)
             preference == CELL_DATA_FIELD
         IN  IF parr.present /\ carr.present
             THEN [err |-> "ok",
                   arr |-> IF preference = CELL_DATA_FIELD THEN carr ELSE parr]
             ELSE [err |-> "ok",
                   arr |-> IF carr.present THEN carr
                           ELSE IF parr.present THEN parr ELSE NoArray]

(* ---------------------------------------------------------------------- *)
(* numpy reductions used by get_data_range                                 *)
(* ---------------------------------------------------------------------- *)
\* the values of an array that are not NaN
NonNaN(vals) == {vals[j] : j \in {q \in 1..Len(vals) : vals[q].k # "nan"}}

\* np.nanmin(arr): [err, val]; ValueError on a zero-size array, NaN (with a
\* warning) when every value is NaN
nanmin(arr) ==
    IF Len(arr.vals) = 0 THEN [err |-> "ValueError", val |-> NaN]
    ELSE LET S == NonNaN(arr.vals)
         IN  IF S = {} THEN [err |-> "ok", val |-> NaN]
             ELSE [err |-> "ok", val |-> CHOOSE x \in S : \A y \in S : ~FLt(y, x)]

\* np.nanmax(arr)
nanmax(arr) ==
    IF Len(arr.vals) = 0 THEN [err |-> "ValueError", val |-> NaN]
    ELSE LET S == NonNaN(arr.vals)
         IN  IF S = {} THEN [err |-> "ok", val |-> NaN]
             ELSE [err |-> "ok", val |-> CHOOSE x \in S : \A y \in S : ~FLt(x, y)]

(* ---------------------------------------------------------------------- *)
(* vtkMultiBlockDataSet, the base class: a vector of items, each holding   *)
(* a data object and its metadata (here: the NAME key), and the            *)
(* modification time.  An index is an unsigned int: the Python binding     *)
(* raises OverflowError on a negative one.  A result is [err, blocks,      *)
(* mods]: mods counts the calls of Modified().                             *)
(* ---------------------------------------------------------------------- *)
\* an item without data object and without name
EmptyItem == [data |-> NoData, name |-> NoName]

\* self.GetNumberOfBlocks()
GetNumberOfBlocks(b) == Len(b)

\* self.SetNumberOfBlocks(n): resizes the vector and calls Modified()
SetNumberOfBlocks(b, n) ==
    IF n < 0 THEN [err |-> "OverflowError", blocks |-> b, mods |-> 0]
    ELSE [err |-> "ok",
          blocks |-> [j \in 1..n |-> IF j <= Len(b) THEN b[j] ELSE EmptyItem],
          mods |-> 1]

\* self.GetBlock(index): NULL (None) for an index past the end
GetBlock(b, index) ==
    IF index < 0 THEN [err |-> "OverflowError", data |-> NoData]
    ELSE IF index >= Len(b) THEN [err |-> "ok", data |-> NoData]
    ELSE [err |-> "ok", data |-> b[index + 1].data]

\* self.SetBlock(i, data): grows the vector to i+1 items when i is past the
\* end, then stores the object; Modified() when the stored pointer changes.
\* fresh: data is an object made by this call (a new wrapper)
SetBlock(b, i, data, fresh) ==
    IF i < 0 THEN [err |-> "OverflowError", blocks |-> b, mods |-> 0]
    ELSE LET grown == IF Len(b) <= i THEN SetNumberOfBlocks(b, i + 1)
                      ELSE [err |-> "ok", blocks |-> b, mods |-> 0]
             changed == fresh \/ grown.blocks[i + 1].data # data
         IN  [err |-> "ok",
              blocks |-> [grown.blocks EXCEPT ![i + 1].data = data],
              mods |-> grown.mods + (IF changed THEN 1 ELSE 0)]

\* RemoveBlock that takes the last item away, whatever the index
RemoveBlock_DropsLast(b, index) ==
    IF index < 0 THEN [err |-> "OverflowError", blocks |-> b, mods |-> 0]
    ELSE IF index >= Len(b) THEN [err |-> "ok", blocks |-> b, mods |-> 0]
    ELSE [err |-> "ok", blocks |-> SubSeq(b, 1, Len(b) - 1), mods |-> 1]

\* RemoveBlock that moves the data objects down and leaves the names in place
RemoveBlock_NamesStay(b, index) ==
    IF index < 0 THEN [err |-> "OverflowError", blocks |-> b, mods |-> 0]
    ELSE IF index >= Len(b) THEN [err |-> "ok", blocks |-> b, mods |-> 0]
    ELSE [err |-> "ok",
          blocks |-> [j \in 1..(Len(b) - 1) |->
                        [data |-> IF j <= index THEN b[j].data ELSE b[j + 1].data,
                         name |-> b[j].name]],
          mods |-> 1]

\* self.RemoveBlock(index): erases the item, or returns silently when the
\* index is past the end
RemoveBlock(b, index) ==
    IF index < 0 THEN [err |-> "OverflowError", blocks |-> b, mods |-> 0]
    ELSE IF index >= Len(b) THEN [err |-> "ok", blocks |-> b, mods |-> 0]
    ELSE [err |-> "ok",
          blocks |-> [j \in 1..(Len(b) - 1) |-> IF j <= index THEN b[j] ELSE b[j + 1]],
          mods |-> 1]

\* self.GetMetaData(index): has |-> FALSE is NULL (None), for an index past the end
GetMetaData(b, index) ==
    IF index < 0 THEN [err |-> "OverflowError", has |-> FALSE, name |-> NoName]
    ELSE IF index >= Len(b) THEN [err |-> "ok", has |-> FALSE, name |-> NoName]
    ELSE [err |-> "ok", has |-> TRUE, name |-> b[index + 1].name]

(* ---------------------------------------------------------------------- *)
(* MultiBlock: the functions that read                                     *)
(* ---------------------------------------------------------------------- *)
\* MultiBlock.n_blocks
n_blocks(b) == GetNumberOfBlocks(b)

\* MultiBlock.get_block_name(index): [err, name]
get_block_name(b, index) ==
    LET meta == GetMetaData(b, index)
    IN  IF meta.err # "ok" THEN [err |-> meta.err, name |-> NoName]
        ELSE IF meta.has THEN [err |-> "ok", name |-> meta.name]
        ELSE [err |-> "ok", name |-> NoName]

RECURSIVE index_scan_KeepsLast(_, _, _)
\* the loop of get_index_by_name without the return at the first match: the
\* last match wins
index_scan_KeepsLast(b, name, i) ==
    IF i >= n_blocks(b) THEN [err |-> "RuntimeError", index |-> -1]
    ELSE LET rest == index_scan_KeepsLast(b, name, i + 1)
         IN  IF rest.err = "ok" THEN rest
             ELSE IF get_block_name(b, i).name = name THEN [err |-> "ok", index |-> i]
             ELSE rest

RECURSIVE index_scan(_, _, _)
\* the loop of get_index_by_name from index i on
index_scan(b, name, i) ==
    IF i >= n_blocks(b) THEN [err |-> "RuntimeError", index |-> -1]
    ELSE IF get_block_name(b, i).name = name THEN [err |-> "ok", index |-> i]
    ELSE index_scan(b, name, i + 1)

\* MultiBlock.get_index_by_name(name): [err, index]
get_index_by_name(b, name) == index_scan(b, name, 0)

\* MultiBlock.__getitem__(index) for an integer index: [err, data]
getitem_int(b, index) ==
    LET got == GetBlock(b, index)
    IN  IF got.err # "ok" THEN got
        ELSE IF got.data = NoData THEN got
        ELSE IF ~is_vtki_obj(got.data) THEN [err |-> "ok", data |-> wrap(got.data)]
        ELSE got

\* MultiBlock.__getitem__(index) for a string index
getitem_str(b, name) ==
    LET found == get_index_by_name(b, name)
    IN  IF found.err # "ok" THEN [err |-> found.err, data |-> NoData]
        ELSE getitem_int(b, found.index)

\* update_bounds that compares the upper bound the wrong way round
update_bounds_UpperLess(ax, nb, bounds) ==
    LET b1 == IF FLt(nb[2 * ax + 1], bounds[2 * ax + 1])
              THEN [bounds EXCEPT ![2 * ax + 1] = nb[2 * ax + 1]] ELSE bounds
    IN  IF FLt(nb[2 * ax + 2], b1[2 * ax + 2])
        THEN [b1 EXCEPT ![2 * ax + 2] = nb[2 * ax + 2]] ELSE b1

\* update_bounds(ax, nb, bounds) of MultiBlock.bounds
update_bounds(ax, nb, bounds) ==
    LET b1 == IF FLt(nb[2 * ax + 1], bounds[2 * ax + 1])
              THEN [bounds EXCEPT ![2 * ax + 1] = nb[2 * ax + 1]] ELSE bounds
    IN  IF FGt(nb[2 * ax + 2], b1[2 * ax + 2])
        THEN [b1 EXCEPT ![2 * ax + 2] = nb[2 * ax + 2]] ELSE b1

RECURSIVE bounds_loop(_, _, _)
\* the loop of MultiBlock.bounds from block i on; an AttributeError (None, or
\* an object without GetBounds) is caught and the block passed over
bounds_loop(b, i, bounds) ==
    IF i >= n_blocks(b) THEN bounds
    ELSE LET blk == getitem_int(b, i).data
         IN  IF blk = NoData \/ ~IsDataSet(blk.obj)
             THEN bounds_loop(b, i + 1, bounds)
             ELSE LET bnds == GetBounds(blk.obj)
                  IN  bounds_loop(b, i + 1,
                        update_bounds(2, bnds, update_bounds(1, bnds,
                          update_bounds(0, bnds, bounds))))

\* MultiBlock.bounds
bounds(b) == bounds_loop(b, 0, <<PInf, NInf, PInf, NInf, PInf, NInf>>)

RECURSIVE range_loop(_, _, _, _, _)
\* the loop of MultiBlock.get_data_range from block i on: [err, mini, maxi]
range_loop(b, name, i, mini, maxi) ==
    IF i >= n_blocks(b) THEN [err |-> "ok", mini |-> mini, maxi |-> maxi]
    ELSE LET data == getitem_int(b, i).data
         IN  IF data = NoData THEN range_loop(b, name, i + 1, mini, maxi)
             ELSE LET sc == get_scalar(data, name)
                  IN  IF sc.err # "ok" THEN [err |-> sc.err, mini |-> mini, maxi |-> maxi]
                      ELSE IF ~sc.arr.present THEN range_loop(b, name, i + 1, mini, maxi)
                      ELSE LET tmi == nanmin(sc.arr)
                               tma == nanmax(sc.arr)
                           IN  IF tmi.err # "ok"
                               THEN [err |-> tmi.err, mini |-> mini, maxi |-> maxi]
                               ELSE range_loop(b, name, i + 1,
                                      IF FLt(tmi.val, mini) THEN tmi.val ELSE mini,
                                      IF FGt(tma.val, maxi) THEN tma.val ELSE maxi)

\* MultiBlock.get_data_range(name)
get_data_range(b, name) == range_loop(b, name, 0, PInf, NInf)

(* ---------------------------------------------------------------------- *)
(* MultiBlock: the functions that write.  A result is [err, blocks, mods]. *)
(* ---------------------------------------------------------------------- *)
DigitChars == <<"0", "1", "2", "3", "4", "5", "6", "7", "8", "9">>

RECURSIVE Decimal(_)
\* str(n) for n >= 0
Decimal(n) == IF n < 10 THEN DigitChars[n + 1] ELSE Decimal(n \div 10) \o DigitChars[(n % 10) + 1]

\* '{0:02}'.format(i): the decimal digits, zero-padded to a width of two
Format02(i) ==
    IF i < 0 THEN "-" \o Decimal(-i)
    ELSE IF i < 10 THEN "0" \o Decimal(i)
    ELSE Decimal(i)

\* 'Block-{0:02}'.format(i)
DefaultName(i) == "Block-" \o Format02(i)

\* set_block_name without the test for None: the name is set to None
set_block_name_NoNoneTest(b, index, name) ==
    LET meta == GetMetaData(b, index)
    IN  IF meta.err # "ok" THEN [err |-> meta.err, blocks |-> b, mods |-> 0]
        ELSE IF ~meta.has THEN [err |-> "AttributeError", blocks |-> b, mods |-> 0]
        ELSE [err |-> "ok", blocks |-> [b EXCEPT ![index + 1].name = name], mods |-> 1]

\* set_block_name without the call of Modified()
set_block_name_NoModified(b, index, name) ==
    IF name = NoName THEN [err |-> "ok", blocks |-> b, mods |-> 0]
    ELSE LET meta == GetMetaData(b, index)
         IN  IF meta.err # "ok" THEN [err |-> meta.err, blocks |-> b, mods |-> 0]
             ELSE IF ~meta.has THEN [err |-> "AttributeError", blocks |-> b, mods |-> 0]
             ELSE [err |-> "ok", blocks |-> [b EXCEPT ![index + 1].name = name], mods |-> 0]

\* MultiBlock.set_block_name(index, name)
set_block_name(b, index, name) ==
    IF name = NoName THEN [err |-> "ok", blocks |-> b, mods |-> 0]
    ELSE LET meta == GetMetaData(b, index)
         IN  IF meta.err # "ok" THEN [err |-> meta.err, blocks |-> b, mods |-> 0]
             ELSE IF ~meta.has THEN [err |-> "AttributeError", blocks |-> b, mods |-> 0]
             ELSE [err |-> "ok", blocks |-> [b EXCEPT ![index + 1].name = name], mods |-> 1]

\* __setitem__ that gives no default name when the name is omitted
setitem_NoDefaultName(b, i, name, data) ==
    LET towrap == data # NoData /\ ~is_vtki_obj(data)
        dat == IF towrap THEN wrap(data) ELSE data
        sb == SetBlock(b, i, dat, dat # data)
    IN  IF sb.err # "ok" THEN sb
        ELSE LET sn == set_block_name(sb.blocks, i, name)
             IN  [err |-> sn.err, blocks |-> sn.blocks, mods |-> sb.mods + sn.mods]

\* MultiBlock.__setitem__(index, data), index being i or the pair (i, name)
setitem(b, i, name, data) ==
    LET nm == IF name = NoName THEN DefaultName(i) ELSE name
        towrap == data # NoData /\ ~is_vtki_obj(data)
        dat == IF towrap THEN wrap(data) ELSE data
        sb == SetBlock(b, i, dat, dat # data)
    IN  IF sb.err # "ok" THEN sb
        ELSE LET sn == set_block_name(sb.blocks, i, nm)
             IN  [err |-> sn.err, blocks |-> sn.blocks, mods |-> sb.mods + sn.mods]

\* append that takes the number of blocks less one as the index
append_AtLast(b, data, name) ==
    IF name # NoName THEN [err |-> "TypeError", blocks |-> b, mods |-> 0]
    ELSE LET nm == DefaultName(Len(b) - 1)
             dat == IF data # NoData /\ ~is_vtki_obj(data) THEN wrap(data) ELSE data
             sb == SetBlock(b, Len(b) - 1, dat, dat # data)
         IN  IF sb.err # "ok" THEN sb
             ELSE LET sn == set_block_name(sb.blocks, Len(b) - 1, nm)
                  IN  [err |-> sn.err, blocks |-> sn.blocks, mods |-> sb.mods + sn.mods]

\* MultiBlock.append(data).  The method takes the data alone: a call that
\* passes a name as well raises TypeError before the body runs
append(b, data, name) ==
    IF name # NoName THEN [err |-> "TypeError", blocks |-> b, mods |-> 0]
    ELSE LET index == n_blocks(b)
         IN  setitem(b, index, NoName, data)

\* MultiBlock.__delitem__(index) for an integer index
delitem_int(b, index) == RemoveBlock(b, index)

\* MultiBlock.__delitem__(index) for a string index
delitem_str(b, name) ==
    LET found == get_index_by_name(b, name)
    IN  IF found.err # "ok" THEN [err |-> found.err, blocks |-> b, mods |-> 0]
        ELSE RemoveBlock(b, found.index)

\* the n_blocks setter: SetNumberOfBlocks(n), then Modified()
set_n_blocks(b, n) ==
    LET r == SetNumberOfBlocks(b, n)
    IN  IF r.err # "ok" THEN r ELSE [r EXCEPT !.mods = r.mods + 1]

RECURSIVE init_list(_, _)
\* MultiBlock(list): appends the blocks of the list in order
init_list(b, lst) ==
    IF lst = <<>> THEN [err |-> "ok", blocks |-> b, mods |-> 0]
    ELSE LET r == append(b, Head(lst), NoName)
             rest == init_list(r.blocks, Tail(lst))
         IN  [err |-> rest.err, blocks |-> rest.blocks, mods |-> r.mods + rest.mods]

(* ---------------------------------------------------------------------- *)
(* Inputs                                                                  *)
(* ---------------------------------------------------------------------- *)
\* the datasets handed to the collection: vtki objects, bare VTK objects, None
DataArgs == {[obj |-> o, wrapped |-> w] : o \in Objs, w \in BOOLEAN} \cup {NoData}
\* the datasets handed to the collection by the operations that write
WriteArgs ==
    {[obj |-> "A", wrapped |-> TRUE], [obj |-> "A", wrapped |-> FALSE],
     [obj |-> "B", wrapped |-> TRUE], NoData}
\* explicit block names
Names == {"a", "b"}
\* names looked up: the explicit ones and the default names
LookupNames == Names \cup {DefaultName(j) : j \in 0..(MaxBlocks - 1)}
\* integer indices tried: one below and one past every valid index
Indices == -1..MaxBlocks

(* ---------------------------------------------------------------------- *)
(* State                                                                   *)
(* ---------------------------------------------------------------------- *)
VARIABLES
    blocks,   \* the items of the vtkMultiBlockDataSet: <<[data, name], ...>>
    mtime,    \* its modification time, advanced by Modified()
    pre,      \* blocks and mtime when the last call began
    last,     \* the last call: operation, arguments, exception, return value
    iter_n,   \* self._iter_n, the iteration cursor; -1 while the attribute is not set
    outer,    \* a loop over the collection: [pc, own, seen]
    inner,    \* a loop over the same collection begun inside the outer one: [pc, seen]
    nested    \* the iterations begun while the outer loop was in progress: <<[k, e], ...>>

itervars == <<iter_n, outer, inner, nested>>

vars == <<blocks, mtime, pre, last, iter_n, outer, inner, nested>>

\* no iteration has been begun
NoIteration ==
    /\ iter_n = -1
    /\ outer = [pc |-> "none", own |-> 0, seen |-> <<>>]
    /\ inner = [pc |-> "none", seen |-> <<>>]
    /\ nested = <<>>

\* a call record; the fields an operation does not use keep these values
Call ==
    [op |-> "init", i |-> 0, key |-> NoName, d |-> NoData, err |-> "ok",
     rdata |-> NoData, rint |-> 0, rname |-> NoName, rseq |-> <<>>]

Snapshot == [blocks |-> blocks, mtime |-> mtime]

\* MultiBlock(): an empty collection
Init ==
    /\ blocks = <<>>
    /\ mtime = 0
    /\ pre = [blocks |-> <<>>, mtime |-> 0]
    /\ last = Call
    /\ NoIteration

\* the caller is between two calls: no call is on record
Idle == last.op = "init"

\* a call that reads: the collection stays as it is
Reads(call) ==
    /\ Idle
    /\ pre' = Snapshot
    /\ last' = call
    /\ UNCHANGED <<blocks, mtime>>
    /\ UNCHANGED itervars

\* a call that writes, with result r = [err, blocks, mods]
Writes(r, call) ==
    /\ Idle
    /\ Len(r.blocks) <= MaxBlocks
    /\ mtime + r.mods <= MaxMTime
    /\ pre' = Snapshot
    /\ blocks' = r.blocks
    /\ mtime' = mtime + r.mods
    /\ last' = [call EXCEPT !.err = r.err]
    /\ UNCHANGED itervars

(* ---------------------------------------------------------------------- *)
(* Operations                                                              *)
(* ---------------------------------------------------------------------- *)
\* mb[i] / mb.get(i)
Get(i) ==
    LET r == getitem_int(blocks, i)
    IN  Reads([Call EXCEPT !.op = "get", !.i = i, !.err = r.err, !.rdata = r.data])

\* mb[name] / mb.get(name)
GetByName(name) ==
    LET r == getitem_str(blocks, name)
    IN  Reads([Call EXCEPT !.op = "get_name", !.key = name, !.err = r.err, !.rdata = r.data])

\* mb[i] = d or mb[i, name] = d
SetItem(i, name, d) ==
    Writes(setitem(blocks, i, name, d),
           [Call EXCEPT !.op = "set", !.i = i, !.key = name, !.d = d])

\* mb.append(d), or mb.append(d, name)
AppendBlock(d, name) ==
    Writes(append(blocks, d, name), [Call EXCEPT !.op = "append", !.key = name, !.d = d])

\* del mb[i]
DelItem(i) ==
    Writes(delitem_int(blocks, i), [Call EXCEPT !.op = "del", !.i = i])

\* del mb[name]
DelByName(name) ==
    Writes(delitem_str(blocks, name), [Call EXCEPT !.op = "del_name", !.key = name])

\* mb.pop(i): data = self[index]; del self[index]; return data
Pop(i) ==
    LET g == getitem_int(blocks, i)
        r == IF g.err # "ok" THEN [err |-> g.err, blocks |-> blocks, mods |-> 0]
             ELSE delitem_int(blocks, i)
    IN  Writes(r, [Call EXCEPT !.op = "pop", !.i = i, !.rdata = g.data])

\* mb.pop(name)
PopByName(name) ==
    LET g == getitem_str(blocks, name)
        r == IF g.err # "ok" THEN [err |-> g.err, blocks |-> blocks, mods |-> 0]
             ELSE delitem_str(blocks, name)
    IN  Writes(r, [Call EXCEPT !.op = "pop_name", !.key = name, !.rdata = g.data])

\* mb.set_block_name(i, name)
SetBlockName(i, name) ==
    Writes(set_block_name(blocks, i, name),
           [Call EXCEPT !.op = "set_block_name", !.i = i, !.key = name])

\* mb.get_block_name(i)
GetBlockName(i) ==
    LET r == get_block_name(blocks, i)
    IN  Reads([Call EXCEPT !.op = "get_block_name", !.i = i, !.err = r.err, !.rname = r.name])

\* mb.get_index_by_name(name)
GetIndexByName(name) ==
    LET r == get_index_by_name(blocks, name)
    IN  Reads([Call EXCEPT !.op = "get_index_by_name", !.key = name, !.err = r.err,
                           !.rint = r.index])

\* mb.n_blocks
NBlocks ==
    Reads([Call EXCEPT !.op = "n_blocks", !.rint = n_blocks(blocks)])

\* mb.n_blocks = n
SetNBlocks(n) ==
    Writes(set_n_blocks(blocks, n), [Call EXCEPT !.op = "set_n_blocks", !.i = n])

\* mb.bounds
Bounds ==
    Reads([Call EXCEPT !.op = "bounds", !.rseq = bounds(blocks)])

\* mb.get_data_range(name)
GetDataRange(name) ==
    LET r == get_data_range(blocks, name)
    IN  Reads([Call EXCEPT !.op = "get_data_range", !.key = name, !.err = r.err,
                           !.rseq = <<r.mini, r.maxi>>])

\* the call has returned and the caller goes on: the record of the call is dropped
Return ==
    /\ ~Idle
    /\ pre' = Snapshot
    /\ last' = Call
    /\ UNCHANGED <<blocks, mtime>>
    /\ UNCHANGED itervars

Next ==
    \/ \E i \in Indices : Get(i)
    \/ \E name \in LookupNames : GetByName(name)
    \/ \E i \in Indices, name \in Names \cup {NoName}, d \in WriteArgs : SetItem(i, name, d)
    \/ \E d \in WriteArgs, name \in Names \cup {NoName} : AppendBlock(d, name)
    \/ \E i \in Indices : DelItem(i)
    \/ \E name \in LookupNames : DelByName(name)
    \/ \E i \in Indices : Pop(i)
    \/ \E name \in LookupNames : PopByName(name)
    \/ \E i \in Indices, name \in Names \cup {NoName} : SetBlockName(i, name)
    \/ \E i \in Indices : GetBlockName(i)
    \/ \E name \in LookupNames : GetIndexByName(name)
    \/ NBlocks
    \/ \E n \in 0..MaxBlocks : SetNBlocks(n)
    \/ Bounds
    \/ \E name \in ArrayNames : GetDataRange(name)
    \/ Return

Spec == Init /\ [][Next]_vars

(* ---------------------------------------------------------------------- *)
(* A collection built from a list, then queried                            *)
(* ---------------------------------------------------------------------- *)
\* the lists MultiBlock(list) is built from
ListArgs == UNION {[1..n -> DataArgs] : n \in 0..MaxBlocks}

\* MultiBlock(lst)
InitList ==
    \E lst \in ListArgs :
        LET r == init_list(<<>>, lst)
        IN  /\ blocks = r.blocks
            /\ mtime = r.mods
            /\ pre = [blocks |-> r.blocks, mtime |-> r.mods]
            /\ last = Call
            /\ NoIteration

NextList ==
    \/ Bounds
    \/ \E name \in ArrayNames : GetDataRange(name)
    \/ NBlocks
    \/ Return

SpecList == InitList /\ [][NextList]_vars

(* ---------------------------------------------------------------------- *)
(* Iteration: for block in mb.  iter(mb) is mb itself, so every loop over   *)
(* the collection steps the one cursor self._iter_n.  A loop begun inside   *)
(* the body of another runs, to its end or to a break, before the outer     *)
(* loop takes its next step.                                                *)
(* ---------------------------------------------------------------------- *)
\* MultiBlock.__iter__: the cursor it sets
mb_iter == 0

\* next() that stops one block early
mb_next_StopsEarly(b, cur) ==
    IF cur < n_blocks(b) - 1
    THEN [stop |-> FALSE, item |-> [i |-> cur, data |-> getitem_int(b, cur).data],
          cur |-> cur + 1]
    ELSE [stop |-> TRUE, item |-> [i |-> cur, data |-> NoData], cur |-> cur]

\* MultiBlock.next with the cursor at cur: the block yielded and the cursor
\* after it, or StopIteration
mb_next(b, cur) ==
    IF cur < n_blocks(b)
    THEN [stop |-> FALSE, item |-> [i |-> cur, data |-> getitem_int(b, cur).data],
          cur |-> cur + 1]
    ELSE [stop |-> TRUE, item |-> [i |-> cur, data |-> NoData], cur |-> cur]

RECURSIVE loop_from(_, _, _)
\* a whole loop "for block in self" from cursor cur on: [seen, cur]
loop_from(b, cur, seen) ==
    LET r == mb_next(b, cur)
    IN  IF r.stop THEN [seen |-> seen, cur |-> r.cur]
        ELSE loop_from(b, r.cur, seen \o <<r.item>>)

\* the loop of MultiBlock.combine: __iter__, then next() up to StopIteration;
\* seen are the blocks handed to alg.AddInputData
combine_loop(b) == loop_from(b, mb_iter, <<>>)

\* the end e of the nested iteration that is in progress is put on record
NestedEnds(e) == [nested EXCEPT ![Len(nested)].e = e]

\* the body of the outer loop is running: the loop has yielded a block and
\* has not been stepped since
InBody == outer.pc = "running" /\ outer.seen # <<>>

\* the outer loop begins: iter(mb)
OuterIter ==
    /\ outer.pc = "none"
    /\ iter_n' = mb_iter
    /\ outer' = [pc |-> "running", own |-> mb_iter, seen |-> <<>>]
    /\ UNCHANGED <<blocks, mtime, pre, last, inner, nested>>

\* the outer loop takes a step: next(mb)
OuterNext ==
    /\ outer.pc = "running"
    /\ inner.pc # "running"
    /\ LET r == mb_next(blocks, iter_n)
       IN  /\ iter_n' = r.cur
           /\ outer' = IF r.stop THEN [outer EXCEPT !.pc = "done"]
                       ELSE [outer EXCEPT !.own = r.cur, !.seen = @ \o <<r.item>>]
    /\ UNCHANGED <<blocks, mtime, pre, last, inner, nested>>

\* a loop over the same collection begins in the body of the outer loop
InnerIter ==
    /\ InBody
    /\ inner.pc # "running"
    /\ Len(nested) < MaxNested
    /\ iter_n' = mb_iter
    /\ inner' = [pc |-> "running", seen |-> <<>>]
    /\ nested' = Append(nested, [k |-> outer.own, e |-> mb_iter])
    /\ UNCHANGED <<blocks, mtime, pre, last, outer>>

\* the inner loop takes a step
InnerNext ==
    /\ inner.pc = "running"
    /\ LET r == mb_next(blocks, iter_n)
       IN  /\ iter_n' = r.cur
           /\ inner' = IF r.stop THEN [inner EXCEPT !.pc = "done"]
                       ELSE [inner EXCEPT !.seen = @ \o <<r.item>>]
           /\ nested' = NestedEnds(r.cur)
    /\ UNCHANGED <<blocks, mtime, pre, last, outer>>

\* the body of the inner loop leaves it: break
InnerBreak ==
    /\ inner.pc = "running"
    /\ inner' = [inner EXCEPT !.pc = "broken"]
    /\ UNCHANGED <<blocks, mtime, pre, last, iter_n, outer, nested>>

\* mb.combine(), on its own or in the body of the outer loop
Combine ==
    /\ inner.pc # "running"
    /\ outer.pc = "running" => (InBody /\ Len(nested) < MaxNested)
    /\ LET r == combine_loop(blocks)
       IN  /\ iter_n' = r.cur
           /\ inner' = [pc |-> "done", seen |-> r.seen]
           /\ nested' = IF outer.pc = "running"
                        THEN Append(nested, [k |-> outer.own, e |-> r.cur])
                        ELSE nested
    /\ UNCHANGED <<blocks, mtime, pre, last, outer>>

\* the lists the iterated collection is built from
IterListArgs == UNION {[1..n -> WriteArgs] : n \in 0..MaxBlocks}

\* MultiBlock(lst), not yet iterated
InitIter ==
    \E lst \in IterListArgs :
        LET r == init_list(<<>>, lst)
        IN  /\ blocks = r.blocks
            /\ mtime = r.mods
            /\ pre = [blocks |-> r.blocks, mtime |-> r.mods]
            /\ last = Call
            /\ NoIteration

NextIter ==
    \/ OuterIter
    \/ OuterNext
    \/ InnerIter
    \/ InnerNext
    \/ InnerBreak
    \/ Combine

SpecIter == InitIter /\ [][NextIter]_vars

(* ---------------------------------------------------------------------- *)
(* Properties                                                              *)
(* ---------------------------------------------------------------------- *)
\* size() when the last call began
PreSize == Len(pre.blocks)
\* the index of the last call was a valid one when the call began
ValidIndex == 0 <= last.i /\ last.i < PreSize
\* the last call left every slot and the modification time as they were
Untouched == blocks = pre.blocks /\ mtime = pre.mtime

\* C1: get(i), remove(i) and pop(i) with an integer i outside [0, size()) raise
\* and leave the collection unchanged
C1_OutOfRangeRaises ==
    (last.op \in {"get", "del", "pop"} /\ ~ValidIndex)
        => (last.err # "ok" /\ blocks = pre.blocks)

\* C2: set(index, dataset, name) with index = size() appends exactly one slot,
\* with index > size() it raises and changes nothing; no set grows the
\* collection by more than one slot
C2_NoSparseGrowth ==
    last.op = "set" =>
        /\ last.i = PreSize => (last.err = "ok" /\ Len(blocks) = PreSize + 1)
        /\ last.i > PreSize => (last.err # "ok" /\ blocks = pre.blocks)
        /\ Len(blocks) <= PreSize + 1

\* C3: remove(i) with a valid i takes one slot away, leaves the slots below i
\* as they were and moves every later slot (dataset and name) down by one
C3_RemoveShifts ==
    (last.op = "del" /\ ValidIndex) =>
        /\ last.err = "ok"
        /\ Len(blocks) = PreSize - 1
        /\ \A j \in 0..(PreSize - 1) :
              /\ j < last.i => blocks[j + 1] = pre.blocks[j + 1]
              /\ j > last.i => blocks[j] = pre.blocks[j + 1]

\* a removal from the middle of three slots that all differ
C3_Witness ==
    /\ last.op = "del" /\ last.i = 1 /\ last.err = "ok"
    /\ PreSize = 3
    /\ pre.blocks[1] # pre.blocks[2] /\ pre.blocks[2] # pre.blocks[3]
    /\ pre.blocks[1] # pre.blocks[3]
    /\ pre.blocks[3].data # NoData
    /\ Len(blocks) = 2

\* the name a slot gets from set(i, d, n)
NameGiven == IF last.key = NoName THEN DefaultName(last.i) ELSE last.key

\* every slot but the one at index i is as it was when the call began
OthersKept(i) ==
    /\ Len(blocks) = PreSize
    /\ \A j \in 0..(PreSize - 1) : j # i => blocks[j + 1] = pre.blocks[j + 1]

AsStored(d) == IF d = NoData THEN NoData ELSE [obj |-> d.obj, wrapped |-> TRUE]

BlockNames == <<"Block-00", "Block-01", "Block-02", "Block-03", "Block-04">>

HasName(b, name) == \E j \in 1..Len(b) : b[j].name = name

\* the lowest index of b whose slot is named name
Lowest(b, name) ==
    CHOOSE j \in 0..(Len(b) - 1) :
        b[j + 1].name = name /\ \A q \in 0..(j - 1) : b[q + 1].name # name

\* the last call added one slot at the end: append(d), or set(size(), d, n)
Appended ==
    /\ last.err = "ok"
    /\ \/ last.op = "append"
       \/ last.op = "set" /\ last.i = PreSize

\* C6: index_of_name(name) is the lowest index whose slot is named name and
\* raises when there is none; get(name) returns the dataset of that slot; and
\* appending a block, also one whose name is already in use, changes
\* index_of_name for no name that was present
C6_NameLookup ==
    /\ last.op = "get_index_by_name" =>
          IF HasName(blocks, last.key)
          THEN last.err = "ok" /\ last.rint = Lowest(blocks, last.key)
          ELSE last.err = "RuntimeError"
    /\ last.op = "get_name" =>
          IF HasName(blocks, last.key)
          THEN last.err = "ok" /\ last.rdata = blocks[Lowest(blocks, last.key) + 1].data
          ELSE last.err = "RuntimeError"
    /\ Appended =>
          \A name \in LookupNames :
              HasName(pre.blocks, name) =>
                  get_index_by_name(blocks, name) = [err |-> "ok", index |-> Lowest(pre.blocks, name)]

\* an append whose default name is already the name of an earlier slot that
\* holds another dataset
C6_Witness ==
    /\ last.op = "append" /\ last.err = "ok" /\ PreSize >= 1
    /\ Len(blocks) = PreSize + 1
    /\ blocks[PreSize + 1].data # NoData
    /\ \E j \in 1..PreSize :
          /\ pre.blocks[j].name = blocks[PreSize + 1].name
          /\ pre.blocks[j].data # blocks[PreSize + 1].data

\* the least and the greatest of a non-empty set of floats without NaN
FMin(S) == CHOOSE x \in S : \A y \in S : ~FLt(y, x)
FMax(S) == CHOOSE x \in S : \A y \in S : ~FLt(x, y)

\* the slots of b that hold a dataset with bounds
WithBounds(b) == {j \in 1..Len(b) : b[j].data # NoData /\ IsDataSet(b[j].data.obj)}

\* per axis the least lower and the greatest upper bound over those slots
ExpectedBounds(b) ==
    LET S == WithBounds(b)
        col(c) == {GetBounds(b[j].data.obj)[c] : j \in S}
        at(c) == IF S = {} THEN (IF c % 2 = 1 THEN PInf ELSE NInf)
                 ELSE IF c % 2 = 1 THEN FMin(col(c)) ELSE FMax(col(c))
    IN  <<at(1), at(2), at(3), at(4), at(5), at(6)>>

\* the objects held by the slots, in order
ObjsOf(b) == [j \in 1..Len(b) |-> b[j].data.obj]

\* C7: bounds() is, per axis, the minimum of the lower and the maximum of the
\* upper bounds over exactly the slots holding a dataset with bounds; it is
\* (inf, -inf, inf, -inf, inf, -inf) when there is none; it leaves the
\* collection as it is; [A(0,1,0,1,0,1), None, B(2,3,2,3,2,3)] gives (0,3,0,3,0,3)
C7_Bounds ==
    last.op = "bounds" =>
        /\ last.err = "ok"
        /\ last.rseq = ExpectedBounds(blocks)
        /\ WithBounds(blocks) = {} => last.rseq = <<PInf, NInf, PInf, NInf, PInf, NInf>>
        /\ ObjsOf(blocks) = <<"A", "None", "B">> =>
              last.rseq = <<Fin(0), Fin(3), Fin(0), Fin(3), Fin(0), Fin(3)>>
        /\ Untouched

\* bounds() of [A, None, B]
C7_Witness ==
    /\ last.op = "bounds"
    /\ ObjsOf(blocks) = <<"A", "None", "B">>
    /\ last.rseq = <<Fin(0), Fin(3), Fin(0), Fin(3), Fin(0), Fin(3)>>

\* the array called name of the dataset in slot j of b, if any: the
\* cell-associated one, or else the point-associated one
ArrayOf(b, j, name) ==
    IF b[j].data = NoData \/ ~IsDataSet(b[j].data.obj) THEN NoArray
    ELSE IF CellArray(b[j].data.obj, name).present THEN CellArray(b[j].data.obj, name)
    ELSE PointArray(b[j].data.obj, name)

\* the values other than NaN of the arrays called name over all slots of b
ValuesOf(b, name) == UNION {NonNaN(ArrayOf(b, j, name).vals) : j \in 1..Len(b)}

\* C8: scalar_range(name) returns the minimum and the maximum of the values
\* other than NaN of the array called name over the slots that have one,
\* passing over empty slots and slots without the array, and (+inf, -inf) when
\* there is no such value
C8_ScalarRange ==
    last.op = "get_data_range" =>
        /\ last.err = "ok"
        /\ LET V == ValuesOf(blocks, last.key)
           IN  last.rseq = IF V = {} THEN <<PInf, NInf>> ELSE <<FMin(V), FMax(V)>>

\* C9: set_name_at(i, n) with a valid i: name_at(i) is n afterwards when n is
\* not null; when n is null nothing changes and name_at(i) is the name the slot
\* had; no dataset and no other slot's name changes
C9_SetNameRoundTrip ==
    (last.op = "set_block_name" /\ ValidIndex) =>
        /\ last.err = "ok"
        /\ get_block_name(blocks, last.i) =
              [err |-> "ok",
               name |-> IF last.key # NoName THEN last.key ELSE pre.blocks[last.i + 1].name]
        /\ last.key = NoName => Untouched
        /\ OthersKept(last.i)
        /\ blocks[last.i + 1].data = pre.blocks[last.i + 1].data

\* a null name given for a named slot that is not the only one
C9_Witness ==
    /\ last.op = "set_block_name" /\ ValidIndex /\ last.err = "ok"
    /\ last.key = NoName
    /\ PreSize >= 2
    /\ pre.blocks[last.i + 1].name \in Names
    /\ blocks[last.i + 1].name = pre.blocks[last.i + 1].name

\* the calls that only read
ReadOps ==
    {"n_blocks", "get", "get_name", "get_block_name", "get_index_by_name", "bounds",
     "get_data_range"}

\* C10: a set, an append and a set_name_at with a name, when they succeed,
\* leave the modification time strictly greater than it was; the calls that
\* only read and set_name_at with a null name leave it as it was
C10_Modified ==
    /\ (last.err = "ok" /\ (\/ last.op = "set"
                            \/ last.op = "append"
                            \/ last.op = "set_block_name" /\ last.key # NoName))
          => mtime > pre.mtime
    /\ (last.op \in ReadOps \/ (last.op = "set_block_name" /\ last.key = NoName))
          => Untouched

\* a set that stores the object the slot already holds under the name it
\* already has: nothing but the modification time changes
C10_Witness ==
    /\ last.op = "set" /\ ValidIndex /\ last.err = "ok"
    /\ last.d # NoData /\ last.d.wrapped
    /\ blocks = pre.blocks
    /\ mtime > pre.mtime

\* get(0), get(1), ..., get(size()-1), each with its index
AllItems(b) == [p \in 1..Len(b) |-> [i |-> p - 1, data |-> getitem_int(b, p - 1).data]]

\* the indices of the blocks a loop has yielded, in the order it yielded them
Idx(seen) == [p \in 1..Len(seen) |-> seen[p].i]

\* the indices from, from+1, ..., to-1
Slots(from, to) == [p \in 1..(to - from) |-> from + p - 1]

\* the outer loop, from the nested iteration on, has visited each slot that
\* remained to it when that iteration began (k and the later ones) exactly once
EachRemainingOnce ==
    LET k == nested[1].k
    IN  \A j \in k..(Len(blocks) - 1) :
            Cardinality({p \in (k + 1)..Len(outer.seen) : outer.seen[p].i = j}) = 1

\* an iteration that nothing interrupts yields get(0), ..., get(size()-1) in
\* ascending order and stops; beginning an iteration sets the one cursor to 0
\* whatever the outer loop has reached
OneCursor ==
    /\ (outer.pc = "done" /\ nested = <<>>) => outer.seen = AllItems(blocks)
    /\ inner.pc = "done" => inner.seen = AllItems(blocks)
    /\ (inner.pc = "running" /\ inner.seen = <<>>) => iter_n = 0

\* C11 as stated: the collection has one cursor; an uninterrupted iteration
\* yields get(0), ..., get(size()-1) and stops; another iteration begun while
\* one is in progress (also the one of combine()) resets the cursor, and the
\* outer iteration then does not visit each of its remaining slots exactly once
C11_NestedIterationSpoilsOuter ==
    /\ OneCursor
    /\ (outer.pc = "done" /\ Len(nested) = 1) => ~EachRemainingOnce

\* C11, amended: one cursor, an uninterrupted iteration yields
\* get(0), ..., get(size()-1) and stops, and a nested iteration resets the
\* cursor; with one nested iteration, begun when the outer one had reached
\* slot k and ended with the cursor at e, the outer iteration yields the slots
\* 0..k-1 and then e..size()-1: it misses the slots k..e-1 when e > k (all that
\* remained after combine() or a complete inner loop) and visits each remaining
\* slot exactly once just when e <= k
C11_Iteration ==
    /\ OneCursor
    /\ (outer.pc = "done" /\ Len(nested) = 1) =>
          LET k == nested[1].k
              e == nested[1].e
          IN  /\ Idx(outer.seen) = Slots(0, k) \o Slots(e, Len(blocks))
              /\ EachRemainingOnce <=> e <= k

\* a loop over three blocks whose first body ran a whole nested iteration:
\* the outer loop has yielded block 0 alone
C11_Witness ==
    /\ outer.pc = "done" /\ inner.pc = "done"
    /\ Len(blocks) = 3 /\ \A j \in 1..3 : blocks[j].data # NoData
    /\ nested = <<[k |-> 1, e |-> 3]>>
    /\ Idx(outer.seen) = <<0>>
    /\ Len(inner.seen) = 3

\* every slot of b is named after its index, as unnamed appends leave them
Canonical(b) == \A j \in 1..Len(b) : b[j].name = DefaultName(j - 1)

\* the slots of b are named as unnamed appends and the removal of slot i
\* leave them: the slots from i on are named after the index above their own
Shifted(b, i) ==
    \A j \in 1..Len(b) : b[j].name = IF j - 1 < i THEN DefaultName(j - 1) ELSE DefaultName(j)

\* b without the slot at index i
Without(b, i) == [j \in 1..(Len(b) - 1) |-> IF j <= i THEN b[j] ELSE b[j + 1]]

\* C12 as stated: after unnamed appends and a remove that leaves slots, the
\* default names no longer equal "Block-{current index}" and the name the
\* next unnamed append gives is already in use
C12_AnyRemoveUnsettlesNames ==
    (last.op = "del" /\ ValidIndex /\ PreSize >= 2 /\ Canonical(pre.blocks)) =>
        /\ ~Canonical(blocks)
        /\ HasName(blocks, DefaultName(Len(blocks)))

\* C12, amended: remove renames no surviving slot (each name moves with its
\* dataset) and append names by the current size; after unnamed appends and
\* the remove of a slot other than the last, the slots from the removed index
\* on no longer carry "Block-{current index}" (after the remove of the last
\* slot they all still do), a further unnamed append gives its slot the name
\* the slot before it already has, and get, index_of_name and remove by that
\* name resolve to that older slot, not to the block just appended
C12_RemoveThenAppend ==
    /\ (last.op = "del" /\ ValidIndex) =>
          \A j \in 1..Len(blocks) :
              blocks[j] = IF j <= last.i THEN pre.blocks[j] ELSE pre.blocks[j + 1]
    /\ (last.op = "del" /\ ValidIndex /\ Canonical(pre.blocks)) =>
          /\ Shifted(blocks, last.i)
          /\ last.i = PreSize - 1 => Canonical(blocks)
          /\ last.i < PreSize - 1 =>
                /\ \A j \in (last.i + 1)..Len(blocks) : blocks[j].name # DefaultName(j - 1)
                /\ HasName(blocks, DefaultName(Len(blocks)))
    /\ (last.op = "append" /\ last.key = NoName
          /\ \E i \in 0..(PreSize - 1) : Shifted(pre.blocks, i)) =>
          LET new == blocks[PreSize + 1].name
          IN  /\ last.err = "ok"
              /\ new = DefaultName(PreSize)
              /\ pre.blocks[PreSize].name = new
              /\ get_index_by_name(blocks, new) = [err |-> "ok", index |-> PreSize - 1]
              /\ getitem_str(blocks, new) = [err |-> "ok", data |-> pre.blocks[PreSize].data]
              /\ delitem_str(blocks, new).blocks = Without(blocks, PreSize - 1)
    /\ (last.op \in {"del_name", "pop_name"} /\ HasName(pre.blocks, last.key)) =>
          /\ last.err = "ok"
          /\ blocks = Without(pre.blocks, Lowest(pre.blocks, last.key))

\* an unnamed append to the one slot that two appends and the removal of
\* slot 0 leave: both slots are named "Block-01" and hold different datasets
C12_Witness ==
    /\ last.op = "append" /\ last.key = NoName /\ last.err = "ok"
    /\ PreSize = 1 /\ Shifted(pre.blocks, 0)
    /\ Len(blocks) = 2
    /\ blocks[1].name = "Block-01" /\ blocks[2].name = "Block-01"
    /\ blocks[1].data # NoData /\ blocks[2].data # NoData
    /\ blocks[1].data # blocks[2].data
    /\ getitem_str(blocks, "Block-01").data = blocks[1].data

====
